---- MODULE Spec2Model ----
(***************************************************************************)
(* Model of src/ping.rs: the blocking ping bridge EspPing::ping /          *)
(* ping_details / run_ping, the three engine callbacks on_ping_success,    *)
(* on_ping_timeout, on_ping_end, update_summary and the per-run Tracker.   *)
(*                                                                         *)
(* Two execution contexts: the caller (pc) and the engine's worker task    *)
(* (wpc).  The engine (the esp_ping API) is an external collaborator: it   *)
(* sends conf.count requests, invokes one success or timeout callback per *)
(* request and the end callback once afterwards; each of its entry points  *)
(* may report an error code.                                               *)
(***************************************************************************)
EXTENDS Integers, Sequences, FiniteSets, TLC

\* ---- bounds -------------------------------------------------------------
MaxCount == 3
MaxRtt == 2
MaxFailedReads == 1

\* ---- values -------------------------------------------------------------
ErrCodes == {"ESP_FAIL", "ESP_ERR_NO_MEM", "ESP_ERR_INVALID_ARG"}
Fields == {"REQUEST", "REPLY", "DURATION"}
AllOk == [f \in Fields |-> TRUE]

\* Numbers of 32 bits and more are kept as 16-bit limbs: [top, hi, lo]
\* stands for top * 2^32 + hi * 2^16 + lo.
Limb == 2^16

\* core::time::Duration: whole seconds and nanoseconds below 10^9
Duration_from_secs(n) == [secs |-> n, nanos |-> 0]

\* Configuration::default()
Configuration_default ==
    [count |-> 5, interval |-> Duration_from_secs(1),
     timeout |-> Duration_from_secs(1), data_size |-> 56, tos |-> 0]

\* Duration::as_millis: secs * 1000 + nanos / 1_000_000 as a u128
as_millis(d) ==
    LET sl == d.secs % Limb
        sh == d.secs \div Limb
        a  == sl * 1000 + (d.nanos \div 1000000)
        b  == sh * 1000 + (a \div Limb)
    IN [top |-> b \div Limb, hi |-> b % Limb, lo |-> a % Limb]

\* Variant of as_u32 that saturates at u32::MAX instead of wrapping.
as_u32_saturating(m) ==
    IF m.top > 0 THEN [hi |-> Limb - 1, lo |-> Limb - 1]
                 ELSE [hi |-> m.hi, lo |-> m.lo]

\* `as u32` on a u128: the low 32 bits
as_u32(m) == [hi |-> m.hi, lo |-> m.lo]

\* the esp_ping_config_t run_ping builds from the Configuration
esp_ping_config(c) ==
    [count |-> c.count,
     interval_ms |-> as_u32(as_millis(c.interval)),
     timeout_ms |-> as_u32(as_millis(c.timeout)),
     data_size |-> c.data_size,
     tos |-> c.tos,
     task_stack_size |-> 4096,
     task_prio |-> 2,
     ttl |-> 64]

\* the Configurations of the default shape, count varied
DefaultConfigurations ==
    {[Configuration_default EXCEPT !.count = n] : n \in 1..MaxCount}

VARIABLES
    mode,        \* which entry point runs: "none", "ping", "ping_details"
    conf,        \* Configuration passed to ping / ping_details
    pc,          \* caller's position in ping / run_ping
    handle,      \* run_ping's local handle: "null" or "h"
    tracker,     \* Tracker {summary, running (waitable.state), alive}
    lock,        \* owner of tracker.waitable.state's mutex
    woken,       \* a notify_all reached the caller sleeping in cvar.wait
    result,      \* what ping / ping_details returned
    session,     \* engine session: "none","created","started","stopped","deleted"
    eng,         \* engine's cumulative counters of the session
    wpc,         \* worker task's position
    calls,       \* engine entry points called by run_ping and what each
                 \* returned, in order: <<[fn, ret]>>; new_session also
                 \* with the esp_ping_config_t it was given
    delivered,   \* events the engine delivered, in order, each with the
                 \* engine's cumulative counters as of that event
    observed,    \* observer invocations: <<[reply, summary]>>
    endSeen      \* what on_ping_end read, whether it cleared the flag, and
                 \* which profile reads of the last handler succeeded, and
                 \* how many handler invocations had a failed read

vars == <<mode, conf, pc, handle, tracker, lock, woken, result, session,
          eng, wpc, calls, delivered, observed, endSeen>>

Summary_default == [transmitted |-> 0, received |-> 0, time |-> 0]

NoResult == [status |-> "none", err |-> "none", at |-> "none",
             summary |-> Summary_default]

\* Tracker::new: default Summary, Waitable::new(false)
Tracker_new == [summary |-> Summary_default, running |-> FALSE, alive |-> TRUE]

Init ==
    /\ mode = "none"
    /\ conf = Configuration_default
    /\ pc = "idle"
    /\ handle = "null"
    /\ tracker = [summary |-> Summary_default, running |-> FALSE, alive |-> FALSE]
    /\ lock = "free"
    /\ woken = FALSE
    /\ result = NoResult
    /\ session = "none"
    /\ eng = [transmitted |-> 0, received |-> 0, total_time |-> 0]
    /\ wpc = "none"
    /\ calls = <<>>
    /\ delivered = <<>>
    /\ observed = <<>>
    /\ endSeen = [flagged |-> FALSE, read |-> Summary_default, ok |-> AllOk,
                  failed |-> 0]

\* the engine entry point fn has been called in this run
Called(fn) == \E i \in 1..Len(calls) : calls[i].fn = fn

\* ---- caller: entry points ----------------------------------------------

\* ping: Tracker::new(Some(nop_callback)), then run_ping
ping(c) ==
    /\ pc = "idle"
    /\ mode' = "ping"
    /\ conf' = c
    /\ tracker' = Tracker_new
    /\ pc' = "new_session"
    /\ UNCHANGED <<handle, lock, woken, result, session, eng, wpc, calls,
                   delivered, observed, endSeen>>

\* ping_details: Tracker::new(Some(reply_callback)), then run_ping
ping_details(c) ==
    /\ pc = "idle"
    /\ mode' = "ping_details"
    /\ conf' = c
    /\ tracker' = Tracker_new
    /\ pc' = "new_session"
    /\ UNCHANGED <<handle, lock, woken, result, session, eng, wpc, calls,
                   delivered, observed, endSeen>>

\* An Err leaves run_ping through `?`, and ping / ping_details through
\* `?` again: the Tracker is dropped and the error is the result.
ReturnErr(code) ==
    /\ result' = [status |-> "err", err |-> code, at |-> pc,
                  summary |-> Summary_default]
    /\ tracker' = [tracker EXCEPT !.alive = FALSE]
    /\ pc' = "done"

\* ---- caller: run_ping ---------------------------------------------------

\* Variant of new_session without the `?`: the engine's error is dropped
\* and run_ping goes on with the handle still null.
new_session_unchecked ==
    /\ pc = "new_session"
    /\ \/ \E code \in ErrCodes :
             /\ calls' = Append(calls, [fn |-> "new_session", ret |-> code,
                                      config |-> esp_ping_config(conf)])
             /\ pc' = "check_handle"
             /\ UNCHANGED <<handle, session, result, tracker>>
       \/ /\ calls' = Append(calls, [fn |-> "new_session", ret |-> "ESP_OK",
                                   config |-> esp_ping_config(conf)])
          /\ handle' = "h"
          /\ session' = "created"
          /\ pc' = "check_handle"
          /\ UNCHANGED <<result, tracker>>
       \/ /\ calls' = Append(calls, [fn |-> "new_session", ret |-> "ESP_OK",
                                   config |-> esp_ping_config(conf)])
          /\ pc' = "check_handle"
          /\ UNCHANGED <<handle, session, result, tracker>>
    /\ UNCHANGED <<mode, conf, lock, woken, eng, wpc, delivered, observed,
                   endSeen>>

\* esp!(esp_ping_new_session(&config, &callbacks, &mut handle))?
\* The engine reports an error, or reports success and fills in a handle,
\* or reports success and leaves the handle null.
new_session ==
    /\ pc = "new_session"
    /\ \/ \E code \in ErrCodes :
             /\ calls' = Append(calls, [fn |-> "new_session", ret |-> code,
                                      config |-> esp_ping_config(conf)])
             /\ ReturnErr(code)
             /\ UNCHANGED <<handle, session>>
       \/ /\ calls' = Append(calls, [fn |-> "new_session", ret |-> "ESP_OK",
                                   config |-> esp_ping_config(conf)])
          /\ handle' = "h"
          /\ session' = "created"
          /\ pc' = "check_handle"
          /\ UNCHANGED <<result, tracker>>
       \/ /\ calls' = Append(calls, [fn |-> "new_session", ret |-> "ESP_OK",
                                   config |-> esp_ping_config(conf)])
          /\ pc' = "check_handle"
          /\ UNCHANGED <<handle, session, result, tracker>>
    /\ UNCHANGED <<mode, conf, lock, woken, eng, wpc, delivered, observed,
                   endSeen>>

\* Variant of check_handle without the null test.
check_handle_missing ==
    /\ pc = "check_handle"
    /\ pc' = "lock_running"
    /\ UNCHANGED <<mode, conf, handle, tracker, lock, woken, result, session,
                   eng, wpc, calls, delivered, observed, endSeen>>

\* if handle.is_null() { return Err(ESP_ERR_INVALID_ARG) }
check_handle ==
    /\ pc = "check_handle"
    /\ IF handle = "null"
          THEN ReturnErr("ESP_ERR_INVALID_ARG")
          ELSE /\ pc' = "lock_running"
               /\ UNCHANGED <<result, tracker>>
    /\ UNCHANGED <<mode, conf, handle, lock, woken, session, eng, wpc, calls,
                   delivered, observed, endSeen>>

\* let mut running = tracker.waitable.state.lock();
lock_running ==
    /\ pc = "lock_running"
    /\ lock = "free"
    /\ lock' = "caller"
    /\ pc' = "set_running"
    /\ UNCHANGED <<mode, conf, handle, tracker, woken, result, session, eng,
                   wpc, calls, delivered, observed, endSeen>>

\* Variant of set_running that leaves the flag as Tracker::new made it.
set_running_skipped ==
    /\ pc = "set_running"
    /\ pc' = "unlock_running"
    /\ UNCHANGED <<mode, conf, handle, tracker, lock, woken, result, session,
                   eng, wpc, calls, delivered, observed, endSeen>>

\* *running = true;
set_running ==
    /\ pc = "set_running"
    /\ tracker' = [tracker EXCEPT !.running = TRUE]
    /\ pc' = "unlock_running"
    /\ UNCHANGED <<mode, conf, handle, lock, woken, result, session, eng,
                   wpc, calls, delivered, observed, endSeen>>

\* the guard goes out of scope at the end of the block
unlock_running ==
    /\ pc = "unlock_running"
    /\ lock' = "free"
    /\ pc' = "start"
    /\ UNCHANGED <<mode, conf, handle, tracker, woken, result, session, eng,
                   wpc, calls, delivered, observed, endSeen>>

\* Variant of start in which run_ping writes the flag true (again) after
\* esp_ping_start has returned: first the engine call, then, in a second
\* step at the same place, the write under the lock.
start_then_set_running ==
    /\ pc = "start"
    /\ \/ /\ ~Called("start")
          /\ \/ \E code \in ErrCodes :
                   /\ calls' = Append(calls, [fn |-> "start", ret |-> code])
                   /\ ReturnErr(code)
                   /\ UNCHANGED <<session, wpc>>
             \/ /\ calls' = Append(calls, [fn |-> "start", ret |-> "ESP_OK"])
                /\ session' = "started"
                /\ wpc' = "loop"
                /\ UNCHANGED <<pc, result, tracker>>
       \/ /\ Called("start")
          /\ lock = "free"
          /\ tracker' = [tracker EXCEPT !.running = TRUE]
          /\ pc' = "wait_lock"
          /\ UNCHANGED <<calls, session, wpc, result>>
    /\ UNCHANGED <<mode, conf, handle, lock, woken, eng, delivered, observed,
                   endSeen>>

\* esp!(esp_ping_start(handle))?  On success the worker task begins to send.
start ==
    /\ pc = "start"
    /\ \/ \E code \in ErrCodes :
             /\ calls' = Append(calls, [fn |-> "start", ret |-> code])
             /\ ReturnErr(code)
             /\ UNCHANGED <<session, wpc>>
       \/ /\ calls' = Append(calls, [fn |-> "start", ret |-> "ESP_OK"])
          /\ session' = "started"
          /\ wpc' = "loop"
          /\ pc' = "wait_lock"
          /\ UNCHANGED <<result, tracker>>
    /\ UNCHANGED <<mode, conf, handle, lock, woken, eng, delivered, observed,
                   endSeen>>

\* tracker.waitable.wait_while(|running| Ok(*running))?
\* wait_while takes the lock, tests the predicate, and while it holds
\* waits on the condition variable (releasing the lock while asleep).  The
\* predicate never returns Err, so wait_while cannot fail here.  woken
\* is cleared when the caller goes to sleep.
wait_lock ==
    /\ pc = "wait_lock"
    /\ lock = "free"
    /\ lock' = "caller"
    /\ pc' = "wait_check"
    /\ UNCHANGED <<mode, conf, handle, tracker, woken, result, session, eng,
                   wpc, calls, delivered, observed, endSeen>>

wait_check ==
    /\ pc = "wait_check"
    /\ lock' = "free"
    /\ woken' = (~tracker.running /\ woken)
    /\ pc' = IF tracker.running THEN "wait_sleep" ELSE "stop"
    /\ UNCHANGED <<mode, conf, handle, tracker, result, session, eng, wpc,
                   calls, delivered, observed, endSeen>>

\* cvar.wait returns: after a notify_all, or spuriously
wait_wake ==
    /\ pc = "wait_sleep"
    /\ woken
    /\ pc' = "wait_lock"
    /\ UNCHANGED <<mode, conf, handle, tracker, lock, woken, result, session,
                   eng, wpc, calls, delivered, observed, endSeen>>

wait_spurious ==
    /\ pc = "wait_sleep"
    /\ ~woken
    /\ pc' = "wait_lock"
    /\ UNCHANGED <<mode, conf, handle, tracker, lock, woken, result, session,
                   eng, wpc, calls, delivered, observed, endSeen>>

\* Variant of stop that calls esp_ping_delete_session where esp_ping_stop
\* belongs, so the session is deleted without being stopped.
stop_deletes ==
    /\ pc = "stop"
    /\ \/ \E code \in ErrCodes :
             /\ calls' = Append(calls, [fn |-> "delete_session", ret |-> code])
             /\ ReturnErr(code)
             /\ UNCHANGED session
       \/ /\ calls' = Append(calls, [fn |-> "delete_session", ret |-> "ESP_OK"])
          /\ session' = "deleted"
          /\ pc' = "delete_session"
          /\ UNCHANGED <<result, tracker>>
    /\ UNCHANGED <<mode, conf, handle, lock, woken, eng, wpc, delivered,
                   observed, endSeen>>

\* esp!(esp_ping_stop(handle))?
stop ==
    /\ pc = "stop"
    /\ \/ \E code \in ErrCodes :
             /\ calls' = Append(calls, [fn |-> "stop", ret |-> code])
             /\ ReturnErr(code)
             /\ UNCHANGED session
       \/ /\ calls' = Append(calls, [fn |-> "stop", ret |-> "ESP_OK"])
          /\ session' = "stopped"
          /\ pc' = "delete_session"
          /\ UNCHANGED <<result, tracker>>
    /\ UNCHANGED <<mode, conf, handle, lock, woken, eng, wpc, delivered,
                   observed, endSeen>>

\* esp!(esp_ping_delete_session(handle))?
delete_session ==
    /\ pc = "delete_session"
    /\ \/ \E code \in ErrCodes :
             /\ calls' = Append(calls, [fn |-> "delete_session", ret |-> code])
             /\ ReturnErr(code)
             /\ UNCHANGED session
       \/ /\ calls' = Append(calls, [fn |-> "delete_session", ret |-> "ESP_OK"])
          /\ session' = "deleted"
          /\ pc' = "return"
          /\ UNCHANGED <<result, tracker>>
    /\ UNCHANGED <<mode, conf, handle, lock, woken, eng, wpc, delivered,
                   observed, endSeen>>

\* Variant of return_summary in which the caller itself hands the final
\* Summary to the observer before returning it.
return_summary_calls_observer ==
    /\ pc = "return"
    /\ result' = [status |-> "ok", err |-> "none", at |-> "return",
                  summary |-> tracker.summary]
    /\ observed' = Append(observed,
           [summary |-> tracker.summary, reply |-> [variant |-> "Timeout"]])
    /\ tracker' = [tracker EXCEPT !.alive = FALSE]
    /\ pc' = "done"
    /\ UNCHANGED <<mode, conf, handle, lock, woken, session, eng, wpc, calls,
                   delivered, endSeen>>

\* run_ping returns Ok(()); ping / ping_details return Ok(tracker.summary)
\* and the Tracker goes out of scope.
return_summary ==
    /\ pc = "return"
    /\ result' = [status |-> "ok", err |-> "none", at |-> "return",
                  summary |-> tracker.summary]
    /\ tracker' = [tracker EXCEPT !.alive = FALSE]
    /\ pc' = "done"
    /\ UNCHANGED <<mode, conf, handle, lock, woken, session, eng, wpc, calls,
                   delivered, observed, endSeen>>

\* ---- engine worker task and the callbacks it invokes ---------------------

\* esp_ping_get_profile into a local initialised to 0: the engine's value
\* when the read succeeds, the initial 0 when it writes nothing.
get_profile(ok, field, value) == IF ok[field] THEN value ELSE 0

\* Variant of update_summary that never assigns summary.time.
update_summary_keeps_time(ok) ==
    [transmitted |-> get_profile(ok, "REQUEST", eng.transmitted),
     received    |-> get_profile(ok, "REPLY", eng.received),
     time        |-> tracker.summary.time]

\* Variant of update_summary with the REQUEST and REPLY reads exchanged.
update_summary_swapped(ok) ==
    [transmitted |-> get_profile(ok, "REPLY", eng.received),
     received    |-> get_profile(ok, "REQUEST", eng.transmitted),
     time        |-> get_profile(ok, "DURATION", eng.total_time)]

\* Variant of update_summary that assigns a field only when its read
\* succeeded and otherwise keeps the field's prior value.
update_summary_keeps_prior(ok) ==
    [transmitted |-> IF ok["REQUEST"] THEN eng.transmitted
                     ELSE tracker.summary.transmitted,
     received    |-> IF ok["REPLY"] THEN eng.received
                     ELSE tracker.summary.received,
     time        |-> IF ok["DURATION"] THEN eng.total_time
                     ELSE tracker.summary.time]

\* update_summary: re-read REQUEST, REPLY and DURATION and overwrite all
\* three fields of the Summary.
update_summary(ok) ==
    [transmitted |-> get_profile(ok, "REQUEST", eng.transmitted),
     received    |-> get_profile(ok, "REPLY", eng.received),
     time        |-> get_profile(ok, "DURATION", eng.total_time)]

\* ping passes nop_callback, ping_details the caller's observer
reply_callback(summary, reply) ==
    IF mode = "ping_details"
       THEN Append(observed, [summary |-> summary, reply |-> reply])
       ELSE observed

\* The engine sends the next request and waits for its reply: either a
\* reply arrives after rtt ms or the wait times out.
engine_send ==
    /\ wpc = "loop"
    /\ session = "started"
    /\ eng.transmitted < calls[1].config.count
    /\ \/ \E rtt \in 1..MaxRtt :
             /\ eng' = [transmitted |-> eng.transmitted + 1,
                        received    |-> eng.received + 1,
                        total_time  |-> eng.total_time + rtt]
             /\ delivered' = Append(delivered,
                    [kind |-> "Success", seqno |-> eng.transmitted + 1,
                     elapsed_time |-> rtt,
                     counters |-> [transmitted |-> eng.transmitted + 1,
                                   received |-> eng.received + 1,
                                   time |-> eng.total_time + rtt]])
             /\ wpc' = "on_ping_success"
       \/ /\ eng' = [eng EXCEPT !.transmitted = @ + 1]
          /\ delivered' = Append(delivered,
                 [kind |-> "Timeout", seqno |-> eng.transmitted + 1,
                  elapsed_time |-> 0,
                  counters |-> [transmitted |-> eng.transmitted + 1,
                                received |-> eng.received,
                                time |-> eng.total_time]])
          /\ wpc' = "on_ping_timeout"
    /\ UNCHANGED <<mode, conf, pc, handle, tracker, lock, woken, result,
                   session, calls, observed, endSeen>>

\* All requests are sent (or the session was stopped): the end event.
engine_end ==
    /\ wpc = "loop"
    /\ eng.transmitted >= calls[1].config.count \/ session # "started"
    /\ delivered' = Append(delivered,
           [kind |-> "End", seqno |-> eng.transmitted, elapsed_time |-> 0,
            counters |-> [transmitted |-> eng.transmitted,
                          received |-> eng.received,
                          time |-> eng.total_time]])
    /\ wpc' = "on_ping_end"
    /\ UNCHANGED <<mode, conf, pc, handle, tracker, lock, woken, result,
                   session, eng, calls, observed, endSeen>>

\* Variant of on_ping_success that hands the observer Reply::Timeout.
on_ping_success_wrong_reply(ok) ==
    /\ wpc = "on_ping_success"
    /\ LET summary == update_summary(ok)
       IN /\ tracker' = [tracker EXCEPT !.summary = summary]
          /\ observed' = reply_callback(summary, [variant |-> "Timeout"])
    /\ wpc' = "loop"
    /\ UNCHANGED <<mode, conf, pc, handle, lock, woken, result, session, eng,
                   calls, delivered, endSeen>>

\* Variant of on_ping_success that invokes the observer before
\* update_summary, with the Summary of the previous event.
on_ping_success_stale(ok) ==
    /\ wpc = "on_ping_success"
    /\ LET ev == delivered[Len(delivered)]
       IN /\ tracker' = [tracker EXCEPT !.summary = update_summary(ok)]
          /\ observed' = reply_callback(tracker.summary,
                 [variant |-> "Success", seqno |-> ev.seqno,
                  elapsed_time |-> ev.elapsed_time])
    /\ wpc' = "loop"
    /\ UNCHANGED <<mode, conf, pc, handle, lock, woken, result, session, eng,
                   calls, delivered, endSeen>>

\* on_ping_success: read SEQNO, TTL, IPADDR, TIMEGAP, SIZE; the callback
\* is Some, so update_summary and then reply_callback(&summary,
\* &Reply::Success(info)).
on_ping_success(ok) ==
    /\ wpc = "on_ping_success"
    /\ LET ev == delivered[Len(delivered)]
           summary == update_summary(ok)
       IN /\ tracker' = [tracker EXCEPT !.summary = summary]
          /\ observed' = reply_callback(summary,
                 [variant |-> "Success", seqno |-> ev.seqno,
                  elapsed_time |-> ev.elapsed_time])
    /\ endSeen' = [endSeen EXCEPT !.ok = ok,
                      !.failed = @ + (IF ok = AllOk THEN 0 ELSE 1)]
    /\ wpc' = "loop"
    /\ UNCHANGED <<mode, conf, pc, handle, lock, woken, result, session, eng,
                   calls, delivered>>

\* Variant of on_ping_timeout that updates the Summary but does not
\* invoke the observer.
on_ping_timeout_silent(ok) ==
    /\ wpc = "on_ping_timeout"
    /\ tracker' = [tracker EXCEPT !.summary = update_summary(ok)]
    /\ wpc' = "loop"
    /\ UNCHANGED <<mode, conf, pc, handle, lock, woken, result, session, eng,
                   calls, delivered, observed, endSeen>>

\* Variant of on_ping_timeout that invokes the observer without calling
\* update_summary first.
on_ping_timeout_no_update(ok) ==
    /\ wpc = "on_ping_timeout"
    /\ observed' = reply_callback(tracker.summary, [variant |-> "Timeout"])
    /\ wpc' = "loop"
    /\ UNCHANGED <<mode, conf, pc, handle, tracker, lock, woken, result,
                   session, eng, calls, delivered, endSeen>>

\* on_ping_timeout: read SEQNO, IPADDR; update_summary and then
\* reply_callback(&summary, &Reply::Timeout).
on_ping_timeout(ok) ==
    /\ wpc = "on_ping_timeout"
    /\ LET summary == update_summary(ok)
       IN /\ tracker' = [tracker EXCEPT !.summary = summary]
          /\ observed' = reply_callback(summary, [variant |-> "Timeout"])
    /\ endSeen' = [endSeen EXCEPT !.ok = ok,
                      !.failed = @ + (IF ok = AllOk THEN 0 ELSE 1)]
    /\ wpc' = "loop"
    /\ UNCHANGED <<mode, conf, pc, handle, lock, woken, result, session, eng,
                   calls, delivered>>

\* Variant of on_ping_end that clears the flag first, without the lock,
\* and calls update_summary afterwards.
on_ping_end_clears_first(ok) ==
    /\ wpc = "on_ping_end"
    /\ IF ~endSeen.flagged
          THEN /\ tracker' = [tracker EXCEPT !.running = FALSE]
               /\ endSeen' = [endSeen EXCEPT !.flagged = TRUE]
               /\ wpc' = "on_ping_end"
          ELSE /\ tracker' = [tracker EXCEPT !.summary = update_summary(ok)]
               /\ endSeen' = [endSeen EXCEPT !.read = update_summary(ok)]
               /\ wpc' = "end_lock"
    /\ UNCHANGED <<mode, conf, pc, handle, lock, woken, result, session, eng,
                   calls, delivered, observed>>

\* on_ping_end: update_summary(handle, &mut tracker.summary) ...
on_ping_end(ok) ==
    /\ wpc = "on_ping_end"
    /\ tracker' = [tracker EXCEPT !.summary = update_summary(ok)]
    /\ endSeen' = [endSeen EXCEPT !.read = update_summary(ok), !.ok = ok,
                      !.failed = @ + (IF ok = AllOk THEN 0 ELSE 1)]
    /\ wpc' = "end_lock"
    /\ UNCHANGED <<mode, conf, pc, handle, lock, woken, result, session, eng,
                   calls, delivered, observed>>

\* Variant of on_ping_end_lock that goes on to write the flag without
\* taking the mutex.
on_ping_end_lock_skipped ==
    /\ wpc = "end_lock"
    /\ wpc' = "end_clear"
    /\ UNCHANGED <<mode, conf, pc, handle, tracker, lock, woken, result,
                   session, eng, calls, delivered, observed, endSeen>>

\* ... let mut running = tracker.waitable.state.lock(); ...
on_ping_end_lock ==
    /\ wpc = "end_lock"
    /\ lock = "free"
    /\ lock' = "worker"
    /\ wpc' = "end_clear"
    /\ UNCHANGED <<mode, conf, pc, handle, tracker, woken, result, session,
                   eng, calls, delivered, observed, endSeen>>

\* Variant of on_ping_end_clear that writes true where false belongs.
on_ping_end_clear_wrong ==
    /\ wpc = "end_clear"
    /\ tracker' = [tracker EXCEPT !.running = TRUE]
    /\ endSeen' = [endSeen EXCEPT !.flagged = TRUE]
    /\ wpc' = "end_notify"
    /\ UNCHANGED <<mode, conf, pc, handle, lock, woken, result, session, eng,
                   calls, delivered, observed>>

\* ... *running = false; ...
on_ping_end_clear ==
    /\ wpc = "end_clear"
    /\ tracker' = [tracker EXCEPT !.running = FALSE]
    /\ endSeen' = [endSeen EXCEPT !.flagged = TRUE]
    /\ wpc' = "end_notify"
    /\ UNCHANGED <<mode, conf, pc, handle, lock, woken, result, session, eng,
                   calls, delivered, observed>>

\* ... tracker.waitable.cvar.notify_all(); ...
on_ping_end_notify ==
    /\ wpc = "end_notify"
    /\ woken' = (woken \/ pc = "wait_sleep")
    /\ wpc' = "end_unlock"
    /\ UNCHANGED <<mode, conf, pc, handle, tracker, lock, result, session,
                   eng, calls, delivered, observed, endSeen>>

\* ... and the guard is dropped when the handler returns.
on_ping_end_unlock ==
    /\ wpc = "end_unlock"
    /\ lock' = "free"
    /\ wpc' = "finished"
    /\ UNCHANGED <<mode, conf, pc, handle, tracker, woken, result, session,
                   eng, calls, delivered, observed, endSeen>>

Next ==
    \/ \E c \in DefaultConfigurations : ping(c)
    \/ \E c \in DefaultConfigurations : ping_details(c)
    \/ new_session
    \/ check_handle
    \/ lock_running
    \/ set_running
    \/ unlock_running
    \/ start
    \/ wait_lock
    \/ wait_check
    \/ wait_wake
    \/ wait_spurious
    \/ stop
    \/ delete_session
    \/ return_summary
    \/ engine_send
    \/ engine_end
    \/ on_ping_success(AllOk)
    \/ on_ping_timeout(AllOk)
    \/ on_ping_end(AllOk)
    \/ on_ping_end_lock
    \/ on_ping_end_clear
    \/ on_ping_end_notify
    \/ on_ping_end_unlock

Spec == Init /\ [][Next]_vars

\* The caller's thread and the engine's worker task are both scheduled:
\* every step of run_ping and of the worker that stays enabled is
\* eventually taken.  A thread blocked in lock() gets the mutex when it
\* keeps being released (strong fairness of the three lock steps).  A
\* spurious wakeup is never owed.
Fairness ==
    /\ WF_vars(new_session) /\ WF_vars(check_handle)
    /\ SF_vars(lock_running) /\ WF_vars(set_running)
    /\ WF_vars(unlock_running) /\ WF_vars(start)
    /\ SF_vars(wait_lock) /\ WF_vars(wait_check) /\ WF_vars(wait_wake)
    /\ WF_vars(stop) /\ WF_vars(delete_session) /\ WF_vars(return_summary)
    /\ WF_vars(engine_send) /\ WF_vars(engine_end)
    /\ WF_vars(on_ping_success(AllOk)) /\ WF_vars(on_ping_timeout(AllOk))
    /\ WF_vars(on_ping_end(AllOk)) /\ SF_vars(on_ping_end_lock)
    /\ WF_vars(on_ping_end_clear) /\ WF_vars(on_ping_end_notify)
    /\ WF_vars(on_ping_end_unlock)

SpecLive == Spec /\ Fairness

\* An engine whose esp_ping_get_profile may fail and then writes nothing
\* to the out buffer: each handler invocation draws which of the reads of
\* update_summary succeed, with failed reads in at most MaxFailedReads
\* handler invocations of a run.
ReadOutcomes ==
    {ok \in [Fields -> BOOLEAN] : ok = AllOk \/ endSeen.failed < MaxFailedReads}

NextFaulty ==
    \/ \E c \in DefaultConfigurations : ping(c)
    \/ \E c \in DefaultConfigurations : ping_details(c)
    \/ new_session
    \/ check_handle
    \/ lock_running
    \/ set_running
    \/ unlock_running
    \/ start
    \/ wait_lock
    \/ wait_check
    \/ wait_wake
    \/ wait_spurious
    \/ stop
    \/ delete_session
    \/ return_summary
    \/ engine_send
    \/ engine_end
    \/ \E ok \in ReadOutcomes : on_ping_success(ok)
    \/ \E ok \in ReadOutcomes : on_ping_timeout(ok)
    \/ \E ok \in ReadOutcomes : on_ping_end(ok)
    \/ on_ping_end_lock
    \/ on_ping_end_clear
    \/ on_ping_end_notify
    \/ on_ping_end_unlock

SpecFaulty == Init /\ [][NextFaulty]_vars

\* Configurations whose interval and timeout lie on both sides of 2^32 ms
\* (2^32 ms = 4294967 s + 296 ms), with data_size and tos varied.
Durations ==
    <<Duration_from_secs(1),
      [secs |-> 4294967, nanos |-> 295999999],
      [secs |-> 4294967, nanos |-> 296000000],
      Duration_from_secs(4294968),
      Duration_from_secs(8589935),
      [secs |-> 0, nanos |-> 999999]>>

Configurations ==
    {[count |-> n,
      interval |-> Durations[i],
      timeout |-> Durations[(i % Len(Durations)) + 1],
      data_size |-> 56 * (i - 1),
      tos |-> (i * 51) % 256] : n \in 1..MaxCount, i \in 1..Len(Durations)}

NextConfig ==
    \/ \E c \in Configurations : ping(c)
    \/ \E c \in Configurations : ping_details(c)
    \/ new_session
    \/ check_handle
    \/ lock_running
    \/ set_running
    \/ unlock_running
    \/ start
    \/ wait_lock
    \/ wait_check
    \/ wait_wake
    \/ wait_spurious
    \/ stop
    \/ delete_session
    \/ return_summary
    \/ engine_send
    \/ engine_end
    \/ on_ping_success(AllOk)
    \/ on_ping_timeout(AllOk)
    \/ on_ping_end(AllOk)
    \/ on_ping_end_lock
    \/ on_ping_end_clear
    \/ on_ping_end_notify
    \/ on_ping_end_unlock

SpecConfig == Init /\ [][NextConfig]_vars

\* ---- helpers for the properties ----------------------------------------

Failed(fn) == \E i \in 1..Len(calls) : calls[i].fn = fn /\ calls[i].ret # "ESP_OK"
Succeeded(fn) == \E i \in 1..Len(calls) : calls[i].fn = fn /\ calls[i].ret = "ESP_OK"
CountCalls(fn) == Cardinality({i \in 1..Len(calls) : calls[i].fn = fn})
IsReply(ev) == ev.kind # "End"
ReplyEvents == SelectSeq(delivered, IsReply)
InHandler == wpc \in {"on_ping_success", "on_ping_timeout"}
\* reply events whose handler has run to completion
Handled == SubSeq(ReplyEvents, 1, Len(ReplyEvents) - (IF InHandler THEN 1 ELSE 0))
EngineCounters ==
    [transmitted |-> eng.transmitted, received |-> eng.received,
     time |-> eng.total_time]
Returned == pc = "done"
ReturnedOk == pc = "done" /\ result.status = "ok"

\* ---- C1 ------------------------------------------------------------------
\* C1: a run that got past a successful start has not called stop or
\* delete_session, has not left wait_while and has not returned Ok unless
\* the end handler of the session has already set the active flag false.
C1_NoProgressBeforeEnd ==
    Succeeded("start") =>
        ((Called("stop") \/ Called("delete_session") \/ ReturnedOk
          \/ pc \in {"stop", "delete_session", "return"})
            => endSeen.flagged)

\* the caller slept in cvar.wait (woken by notify or spuriously), and the
\* run returned Ok after the end handler cleared the flag
C1_Witness ==
    /\ ReturnedOk
    /\ Succeeded("start")
    /\ endSeen.flagged
    /\ woken

\* ---- C2 ------------------------------------------------------------------
\* C2: the Summary a successful run returns is the engine's cumulative
\* counters (transmitted, received, duration) as the end handler read them.
C2_SummaryIsEndCounters ==
    ReturnedOk =>
        /\ result.summary = endSeen.read
        /\ result.summary = EngineCounters

\* two replies and one timeout, then the end event
C2_Witness ==
    /\ ReturnedOk
    /\ result.summary.transmitted = 3
    /\ result.summary.received = 2
    /\ result.summary.time = 3

\* ---- C3 ------------------------------------------------------------------
\* C3: in ping_details the observer has been invoked once for every
\* success or timeout event whose handler ran and not for the end event;
\* at a successful return the number of invocations equals the
\* transmitted count of the returned Summary.
C3_OneCallPerReply ==
    mode = "ping_details" =>
        /\ Len(observed) = Len(Handled)
        /\ ReturnedOk => Len(observed) = result.summary.transmitted

C3_Witness ==
    /\ mode = "ping_details"
    /\ ReturnedOk
    /\ Len(observed) = 3
    /\ \E i \in 1..3 : observed[i].reply.variant = "Timeout"
    /\ \E i \in 1..3 : observed[i].reply.variant = "Success"

\* ---- C4 ------------------------------------------------------------------
\* C4: the observer sees one Reply per delivered success / timeout event,
\* in delivery order, Success for a success event (with that event's
\* seqno and elapsed time) and Timeout for a timeout event; once the run
\* has returned no handler is running or still to come.
ReplyOf(ev) ==
    IF ev.kind = "Success"
       THEN [variant |-> "Success", seqno |-> ev.seqno,
             elapsed_time |-> ev.elapsed_time]
       ELSE [variant |-> "Timeout"]

C4_ObserverOrder ==
    /\ mode = "ping_details" =>
          /\ Len(observed) = Len(Handled)
          /\ \A i \in 1..Len(observed) : observed[i].reply = ReplyOf(Handled[i])
    /\ Returned => (wpc \in {"none", "finished"} /\ Len(Handled) = Len(ReplyEvents))

\* engine sequence [Success, Timeout, Success, End]
C4_Witness ==
    /\ mode = "ping_details"
    /\ ReturnedOk
    /\ Len(delivered) = 4
    /\ delivered[1].kind = "Success" /\ delivered[2].kind = "Timeout"
    /\ delivered[3].kind = "Success" /\ delivered[4].kind = "End"
    /\ Len(observed) = 3
    /\ observed[1].reply.variant = "Success"
    /\ observed[2].reply.variant = "Timeout"
    /\ observed[3].reply.variant = "Success"

\* ---- C5 ------------------------------------------------------------------
\* C5: the Summary of the Nth observer invocation has transmitted >= N,
\* and transmitted and received never decrease from one invocation to the
\* next.
C5_ObservedSummaryMonotone ==
    /\ \A n \in 1..Len(observed) : observed[n].summary.transmitted >= n
    /\ \A n \in 1..(Len(observed) - 1) :
          /\ observed[n].summary.transmitted <= observed[n + 1].summary.transmitted
          /\ observed[n].summary.received <= observed[n + 1].summary.received

C5_Witness ==
    /\ Len(observed) = 3
    /\ observed[1].summary.received = 1
    /\ observed[2].summary.received = 1
    /\ observed[3].summary.received = 2

\* ---- C6 ------------------------------------------------------------------
\* C6: when esp_ping_new_session reports an error the run has returned
\* that error, new_session is the only engine call of the run, and no
\* event was delivered and no handler or observer ran.
C6_CreateFailure ==
    Failed("new_session") =>
        /\ Returned
        /\ result.status = "err"
        /\ result.err = calls[1].ret
        /\ Len(calls) = 1
        /\ session = "none"
        /\ wpc = "none"
        /\ delivered = <<>>
        /\ observed = <<>>
        /\ tracker.summary = Summary_default

C6_Witness ==
    /\ Failed("new_session")
    /\ Returned
    /\ result.err = "ESP_ERR_NO_MEM"

\* ---- C7 ------------------------------------------------------------------
NullHandleSeen ==
    /\ Succeeded("new_session")
    /\ handle = "null"
    /\ pc # "check_handle"

C8_StartFailureTearsDown ==
    (Failed("start") /\ Returned) =>
        /\ Called("stop")
        /\ Called("delete_session")
        /\ session = "deleted"

\* ---- C9 ------------------------------------------------------------------
\* C9 as stated: once the run has returned and its Tracker is destroyed,
\* no undestroyed engine session holds the Tracker's address as cb_args.
C9_NoSessionOutlivesTracker ==
    (Returned /\ ~tracker.alive) => session \in {"none", "deleted"}

C11_EventuallyTornDown ==
    Succeeded("start") ~> (Called("stop") /\ Called("delete_session") /\ Returned)

\* ---- C12 -----------------------------------------------------------------
CallOrder == <<"new_session", "start", "stop", "delete_session">>

\* C12: the engine calls of a run are always a prefix of new_session,
\* start, stop, delete_session (each at most once, in that order, nothing
\* after delete_session); stop and delete_session come only after the end
\* handler ran; a successful run has made all four.
C12_CallSequence ==
    /\ Len(calls) <= 4
    /\ \A i \in 1..Len(calls) : calls[i].fn = CallOrder[i]
    /\ \A i \in 1..(Len(calls) - 1) : calls[i].ret = "ESP_OK"
    /\ Len(calls) >= 3 => (endSeen.flagged /\ wpc = "finished")
    /\ ReturnedOk => (Len(calls) = 4 /\ calls[4].ret = "ESP_OK")

C12_Witness ==
    /\ ReturnedOk
    /\ Len(calls) = 4
    /\ session = "deleted"
    /\ Len(delivered) = 3
\* ---- C13 -----------------------------------------------------------------
\* C13: in ping and in ping_details alike, once the handler of a success
\* or timeout event has run the Tracker's Summary is the engine's
\* cumulative counters as of that event, and the Summary each observer
\* invocation received is the engine's counters as of its event.
C13_SummaryRereadPerEvent ==
    /\ (mode \in {"ping", "ping_details"} /\ Len(Handled) > 0
          /\ wpc \in {"loop", "on_ping_success", "on_ping_timeout"})
          => tracker.summary = Handled[Len(Handled)].counters
    /\ \A i \in 1..Len(observed) : observed[i].summary = Handled[i].counters

C13_Witness ==
    /\ mode = "ping_details"
    /\ Len(observed) = 2
    /\ observed[1].reply.variant = "Success"
    /\ observed[2].reply.variant = "Timeout"
    /\ observed[2].summary = [transmitted |-> 2, received |-> 1, time |-> 2]
    /\ tracker.summary = observed[2].summary
\* ---- C14 -----------------------------------------------------------------
\* a handler that writes tracker.summary is running or may still run
MayWriteSummary ==
    wpc \in {"loop", "on_ping_success", "on_ping_timeout", "on_ping_end"}

\* the caller is past wait_while, reads tracker.summary or has dropped it
CallerHasSummary == pc \in {"stop", "delete_session", "return", "done"}

\* C14: once the active flag has been cleared no handler writes the
\* Summary any more, and whenever the caller is past wait_while, reads the
\* Summary or has dropped the Tracker, no handler may still write it; a
\* started run gets there only after the flag was cleared.
C14_NoConcurrentSummaryAccess ==
    /\ endSeen.flagged => ~MayWriteSummary
    /\ CallerHasSummary => ~MayWriteSummary
    /\ (CallerHasSummary /\ Succeeded("start")) => (endSeen.flagged /\ ~tracker.running)

C14_Witness ==
    /\ pc = "return"
    /\ wpc = "finished"
    /\ endSeen.flagged
    /\ tracker.summary.transmitted = 3
    /\ tracker.summary.received = 1
\* ---- C15 -----------------------------------------------------------------
\* the caller is between lock() and the release of the guard
CallerInCriticalSection == pc \in {"set_running", "unlock_running", "wait_check"}
\* on_ping_end is between lock() and the release of the guard
WorkerInCriticalSection == wpc \in {"end_clear", "end_notify", "end_unlock"}

\* C15: the caller writes the flag (set_running) and tests it (wait_check)
\* only while it owns the mutex; on_ping_end clears it and calls
\* notify_all only while it owns the mutex; the two contexts are never in
\* their critical sections together.
C15_FlagUnderLock ==
    /\ pc \in {"set_running", "wait_check"} => lock = "caller"
    /\ wpc \in {"end_clear", "end_notify"} => lock = "worker"
    /\ ~(CallerInCriticalSection /\ WorkerInCriticalSection)
    /\ lock = "caller" => CallerInCriticalSection
    /\ lock = "worker" => WorkerInCriticalSection

\* on_ping_end signals under the lock while the caller, woken spuriously,
\* is blocked on the same lock
C15_Witness ==
    /\ wpc = "end_notify"
    /\ lock = "worker"
    /\ pc = "wait_lock"
    /\ ~tracker.running
\* ---- C16 -----------------------------------------------------------------
\* the end handler has cleared the flag: the run is Ended
Ended == endSeen.flagged

C16_Step ==
    /\ (~tracker.running /\ tracker'.running) =>
          (pc = "set_running" /\ ~Called("start") /\ ~Ended)
    /\ (tracker.running /\ ~tracker'.running) =>
          (wpc = "end_clear" /\ Called("start"))
    /\ Ended =>
          /\ Ended'
          /\ ~tracker'.running
          /\ observed' = observed
          /\ delivered' = delivered
          /\ tracker'.summary = tracker.summary

C16_State ==
    /\ session = "started" => Succeeded("start")
    /\ (Succeeded("start") /\ ~Ended) => tracker.running
    /\ wpc \in {"end_notify", "end_unlock", "finished"} => (Ended /\ ~tracker.running)
    /\ \A i \in 1..(Len(delivered) - 1) : delivered[i].kind # "End"
    /\ Ended => delivered[Len(delivered)].kind = "End"

\* C16: the flag goes false -> true only in run_ping's write before
\* start and true -> false only in on_ping_end, a started run has the flag
\* true until the end handler clears it, and once it is cleared the flag
\* stays false and no event is delivered, no observer invocation happens
\* and the Summary is not written again.
C16_RunStateMachine == [](C16_State) /\ [][C16_Step]_vars

C16_Witness ==
    /\ Ended
    /\ ReturnedOk
    /\ ~tracker.running
    /\ Len(delivered) = 4
    /\ mode = "ping_details"
\* ---- C17 -----------------------------------------------------------------
SummaryField(t, f) ==
    CASE f = "REQUEST"  -> t.summary.transmitted
      [] f = "REPLY"    -> t.summary.received
      [] f = "DURATION" -> t.summary.time

EngineField(f) ==
    CASE f = "REQUEST"  -> eng.transmitted
      [] f = "REPLY"    -> eng.received
      [] f = "DURATION" -> eng.total_time

\* a handler runs update_summary in this step
HandlerStep ==
    /\ wpc \in {"on_ping_success", "on_ping_timeout", "on_ping_end"}
    /\ wpc' # wpc

\* C17 as stated: a failed read of REQUEST, REPLY or DURATION leaves the
\* corresponding Summary field as it was before the handler ran.
C17_FailedReadKeepsField ==
    [][HandlerStep =>
         \A f \in Fields :
            ~endSeen'.ok[f] => SummaryField(tracker', f) = SummaryField(tracker, f)]_vars

\* C17 (amended): a failed read sets the corresponding Summary field to 0,
\* whatever an earlier event had stored there; a field whose read
\* succeeded gets the engine's value; the handler completes.
C17_FailedReadZeroesField ==
    [][HandlerStep =>
         /\ \A f \in Fields :
               SummaryField(tracker', f) =
                   IF endSeen'.ok[f] THEN EngineField(f) ELSE 0
         /\ wpc' \in {"loop", "end_lock"}]_vars

\* the first event stored transmitted = 1, the REQUEST read of the second
\* failed and the observer was handed transmitted = 0
C17_Witness ==
    /\ mode = "ping_details"
    /\ Len(observed) = 2
    /\ observed[1].summary.transmitted = 1
    /\ observed[2].summary.transmitted = 0
    /\ ~endSeen.ok["REQUEST"]
    /\ tracker.summary.transmitted = 0
\* ---- C20 -----------------------------------------------------------------
\* Milliseconds written in base 1000, [k, u] standing for k * 1000 + u,
\* so that values of 2^32 and more can be compared.
Millis1000(d) == [k |-> d.secs, u |-> d.nanos \div 1000000]

U32In1000(x) ==
    LET r == x.hi * 536 + x.lo
    IN [k |-> x.hi * 65 + (r \div 1000), u |-> r % 1000]

\* q * 2^32, with 2^32 = 4294967 * 1000 + 296
Wraps1000(q) ==
    LET r == q * 296
    IN [k |-> q * 4294967 + (r \div 1000), u |-> r % 1000]

Add1000(a, b) ==
    [k |-> a.k + b.k + ((a.u + b.u) \div 1000), u |-> (a.u + b.u) % 1000]

Below2_32(d) == d.secs < 4294967 \/ (d.secs = 4294967 /\ d.nanos \div 1000000 < 296)

\* x is a 32-bit value, equal to the whole milliseconds of d when those
\* are below 2^32 and otherwise equal to them modulo 2^32
TruncatedMillis(x, d) ==
    /\ x.hi \in 0..(Limb - 1)
    /\ x.lo \in 0..(Limb - 1)
    /\ \E q \in 0..2 :
          /\ Add1000(U32In1000(x), Wraps1000(q)) = Millis1000(d)
          /\ (q = 0) <=> Below2_32(d)

\* C20: the esp_ping_config_t handed to esp_ping_new_session has
\* interval_ms and timeout_ms equal to the configured whole milliseconds
\* when those are below 2^32 and equal to them modulo 2^32 otherwise,
\* and count, data_size and tos equal to the Configuration's.
C20_ConfigTranslation ==
    Len(calls) >= 1 =>
        LET cfg == calls[1].config
        IN /\ TruncatedMillis(cfg.interval_ms, conf.interval)
           /\ TruncatedMillis(cfg.timeout_ms, conf.timeout)
           /\ cfg.count = conf.count
           /\ cfg.data_size = conf.data_size
           /\ cfg.tos = conf.tos

\* interval 4294968 s = 2^32 + 704 ms, timeout 8589935 s = 2 * 2^32 + 408 ms
C20_Witness ==
    /\ Len(calls) >= 1
    /\ calls[1].ret = "ESP_OK"
    /\ conf.interval = Duration_from_secs(4294968)
    /\ conf.timeout = Duration_from_secs(8589935)
    /\ calls[1].config.interval_ms = [hi |-> 0, lo |-> 704]
    /\ calls[1].config.timeout_ms = [hi |-> 0, lo |-> 408]
    /\ calls[1].config.tos = 204
\* ---- C18 -----------------------------------------------------------------
\* C18: every observer invocation is made by a step of on_ping_success or
\* on_ping_timeout on the worker task of a started session, in which the
\* caller takes no step; a step makes one invocation at most, and the
\* handler has returned before the next event is delivered.
C18_ObserverOnWorkerOnly ==
    [][observed' # observed =>
         /\ wpc \in {"on_ping_success", "on_ping_timeout"}
         /\ wpc' = "loop"
         /\ pc' = pc
         /\ result' = result
         /\ delivered' = delivered
         /\ Succeeded("start")
         /\ Len(observed') = Len(observed) + 1
         /\ SubSeq(observed', 1, Len(observed)) = observed]_vars

\* two invocations have been made while the caller sleeps in wait_while
C18_Witness ==
    /\ mode = "ping_details"
    /\ Len(observed) = 2
    /\ pc = "wait_sleep"
    /\ wpc = "loop"
\* ---- C19 -----------------------------------------------------------------
C19_State ==
    /\ pc \in {"new_session", "check_handle", "lock_running", "set_running"}
          => ~tracker.running
    /\ pc = "start" => (tracker.running /\ Succeeded("new_session") /\ handle = "h")
    /\ Ended => ~tracker.running

\* C19: the flag is false from Tracker::new until run_ping's write after
\* a successful create, and true when esp_ping_start is called; once the
\* end handler has cleared it the caller never sets it again; and every
\* run whose start succeeded leaves wait_while and calls stop, wherever
\* the caller was when the end event arrived.
C19_FlagSetBeforeStart ==
    [](C19_State) /\ (Succeeded("start") ~> Called("stop"))

\* the end handler has finished before the caller has taken the lock in
\* wait_while
C19_Witness ==
    /\ pc = "wait_lock"
    /\ wpc = "finished"
    /\ Ended
    /\ ~woken
    /\ ~tracker.running
====
